---- MODULE Spec2Model ----
(***************************************************************************)
(* A model of data_workbench.cleaning.DataCleaner: the order/ship date     *)
(* reconciliation (fix_order_ship_dates, _best_time_fix, _swap_day_month), *)
(* the consistency check (check_order_consistency) and the relative fill   *)
(* (fill_blank_relative).                                                  *)
(*                                                                         *)
(* The data frame is a sequence of rows, one record per row, on the        *)
(* default positional index.  Timestamps are calendar dates at day         *)
(* granularity, Timedeltas are whole days.                                 *)
(***************************************************************************)
EXTENDS Integers, Sequences, FiniteSets, TLC

VARIABLES
    df,      \* the data frame the caller holds (mutated in place)
    orig,    \* history: the data frame as it was constructed
    prev,    \* history: the data frame as it was before the last call
    calls,   \* number of calls made so far
    args,    \* the column arguments of the last call
    pc,      \* "start", "returned" or "raised" (how the last call ended)
    ret,     \* what the last call returned
    out      \* what the last call printed, one entry per print

vars == <<df, orig, prev, calls, args, pc, ret, out>>

(***************************************************************************)
(* Bounds of the model.                                                    *)
(***************************************************************************)
MaxRows == 2            \* rows of a data frame of sampled dates
MaxCalls == 2           \* fix_order_ship_dates is called at most this often
MaxCheckRows == 3       \* rows of a data frame given to check_order_consistency
MaxFillRows == 3        \* rows of a data frame given to fill_blank_relative
BaseYear == 2020        \* first year of the calendar window
YearSpan == 1           \* the window covers BaseYear .. BaseYear + YearSpan
FarYear == 1740         \* a year BestPickInit days or more before the window
MaxMonth == 3           \* months 1 .. MaxMonth of the window
MaxDay == 17            \* days 1 .. MaxDay of the window

(***************************************************************************)
(* Program constants.                                                      *)
(***************************************************************************)
day_threshold == 15
BestPickInit == 99999
MonthsInYear == 12

(***************************************************************************)
(* Cell values.                                                            *)
(***************************************************************************)
NaT == [nat |-> TRUE]
Absent == [absent |-> TRUE]
Timedelta(n) == [days |-> n]
Timestamp(y, m, d) == [year |-> y, month |-> m, day |-> d]

IsNaT(v) == v = NaT

\* Days from 1970-01-01 to the date, in the proleptic Gregorian calendar.
DayNumber(date) ==
    LET y   == IF date.month <= 2 THEN date.year - 1 ELSE date.year
        mp  == IF date.month > 2 THEN date.month - 3 ELSE date.month + 9
        era == y \div 400
        yoe == y - era * 400
        doy == (153 * mp + 2) \div 5 + date.day - 1
        doe == yoe * 365 + yoe \div 4 - yoe \div 100 + doy
    IN  era * 146097 + doe - 719468

\* Timestamp - Timestamp: NaT when either side is missing.
DateDiff(a, b) ==
    IF IsNaT(a) \/ IsNaT(b) THEN NaT ELSE Timedelta(DayNumber(a) - DayNumber(b))


(***************************************************************************)
(* _swap_day_month: pd.Timestamp(year=date.year, month=date.day,           *)
(* day=date.month).  The constructor raises ValueError when the month      *)
(* argument (the old day) is not in 1..12; the day argument (the old       *)
(* month) is at most 12, so it exists in every month.                      *)
(***************************************************************************)
SwapRaises(date) == date.day > MonthsInYear

_swap_day_month(date) == Timestamp(date.year, date.day, date.month)

\* The test with <= in place of <.
BetterOrEqual(t, best_pick) == t >= 0 /\ t <= best_pick

\* "x >= zero_days and x < best_pick"
Better(t, best_pick) == t >= 0 /\ t < best_pick

\* The chain of five ifs of _best_time_fix; fix stays "unbound" when no
\* branch is taken.
Pick(no_change, swap, order_t, ship_t, both_t) ==
    LET p0 == [best_pick |-> BestPickInit, fix |-> "unbound"]
        p1 == IF Better(no_change, p0.best_pick)
              THEN [best_pick |-> no_change, fix |-> "NONE"] ELSE p0
        p2 == IF Better(swap, p1.best_pick) /\ p1.best_pick # 0
              THEN [best_pick |-> swap, fix |-> "SWAP"] ELSE p1
        p3 == IF Better(order_t, p2.best_pick)
              THEN [best_pick |-> order_t, fix |-> "ORDER"] ELSE p2
        p4 == IF Better(ship_t, p3.best_pick)
              THEN [best_pick |-> ship_t, fix |-> "SHIP"] ELSE p3
        p5 == IF Better(both_t, p4.best_pick)
              THEN [best_pick |-> both_t, fix |-> "BOTH"] ELSE p4
    IN  p5

\* The five candidate durations of a row, in days; a candidate whose
\* reformat raised keeps the preset of -1 day.
Candidates(order_date, ship_date) ==
    LET order_reformat_valid == ~SwapRaises(order_date)
        ship_reformat_valid  == ~SwapRaises(ship_date)
        o  == DayNumber(order_date)
        s  == DayNumber(ship_date)
        ro == DayNumber(_swap_day_month(order_date))
        rs == DayNumber(_swap_day_month(ship_date))
    IN  [NONE  |-> s - o,
         SWAP  |-> o - s,
         ORDER |-> IF order_reformat_valid THEN s - ro ELSE -1,
         SHIP  |-> IF ship_reformat_valid THEN rs - o ELSE -1,
         BOTH  |-> IF order_reformat_valid /\ ship_reformat_valid
                   THEN rs - ro ELSE -1]

\* The match statement with the SHIP case writing the order column.
CommitShipIntoOrder(fix, order_date, ship_date) ==
    CASE fix = "SWAP"  -> [OrderDate |-> ship_date, ShipDate |-> order_date]
      [] fix = "ORDER" -> [OrderDate |-> _swap_day_month(order_date),
                           ShipDate |-> ship_date]
      [] fix = "SHIP"  -> [OrderDate |-> _swap_day_month(ship_date),
                           ShipDate |-> ship_date]
      [] fix = "BOTH"  -> [OrderDate |-> _swap_day_month(order_date),
                           ShipDate |-> _swap_day_month(ship_date)]
      [] OTHER         -> [OrderDate |-> order_date, ShipDate |-> ship_date]

\* The match statement with the BOTH case leaving the ship column out.
CommitBothHalf(fix, order_date, ship_date) ==
    CASE fix = "SWAP"  -> [OrderDate |-> ship_date, ShipDate |-> order_date]
      [] fix = "ORDER" -> [OrderDate |-> _swap_day_month(order_date),
                           ShipDate |-> ship_date]
      [] fix = "SHIP"  -> [OrderDate |-> order_date,
                           ShipDate |-> _swap_day_month(ship_date)]
      [] fix = "BOTH"  -> [OrderDate |-> _swap_day_month(order_date),
                           ShipDate |-> ship_date]
      [] OTHER         -> [OrderDate |-> order_date, ShipDate |-> ship_date]

\* The match statement: the dates the chosen fix writes into the row.
Commit(fix, order_date, ship_date) ==
    CASE fix = "SWAP"  -> [OrderDate |-> ship_date, ShipDate |-> order_date]
      [] fix = "ORDER" -> [OrderDate |-> _swap_day_month(order_date),
                           ShipDate |-> ship_date]
      [] fix = "SHIP"  -> [OrderDate |-> order_date,
                           ShipDate |-> _swap_day_month(ship_date)]
      [] fix = "BOTH"  -> [OrderDate |-> _swap_day_month(order_date),
                           ShipDate |-> _swap_day_month(ship_date)]
      [] OTHER         -> [OrderDate |-> order_date, ShipDate |-> ship_date]

\* The row returned with the time column it came with.
StaleTime(row, dates) == row.TimeTillShipping

\* The last statement before the return: the time column of the row.
RecomputeTime(row, dates) == DateDiff(dates.ShipDate, dates.OrderDate)

\* _best_time_fix on one row: raised is TRUE when "match fix" reads the
\* unbound local (UnboundLocalError); case _ prints "Unknown state".
_best_time_fix(row) ==
    LET c == Candidates(row.OrderDate, row.ShipDate)
        p == Pick(c.NONE, c.SWAP, c.ORDER, c.SHIP, c.BOTH)
        dates == Commit(p.fix, row.OrderDate, row.ShipDate)
    IN  IF p.fix = "unbound"
        THEN [raised |-> TRUE, row |-> row, fix |-> p.fix, printed |-> <<>>]
        ELSE [raised  |-> FALSE,
              row     |-> [OrderDate |-> dates.OrderDate,
                           ShipDate |-> dates.ShipDate,
                           TimeTillShipping |-> RecomputeTime(row, dates)],
              fix     |-> p.fix,
              printed |-> IF p.fix = "NONE" THEN <<"Unknown state">> ELSE <<>>]

\* fix_mask of one row, given its time column.
NeedsFix(t) ==
    ~IsNaT(t) /\ (t.days < 0 \/ t.days > day_threshold)

\* df["Time Till Shipping"] = df[ship] - df[order], for one row.
TimedRow(row) ==
    [row EXCEPT !.TimeTillShipping = DateDiff(row.ShipDate, row.OrderDate)]

RECURSIVE TimedRows(_, _)
TimedRows(frame, i) ==
    IF i > Len(frame) THEN <<>>
    ELSE <<TimedRow(frame[i])>> \o TimedRows(frame, i + 1)

RECURSIVE MaskedLabels(_, _)
\* The index labels fix_mask selects among rows i.., in row order.
MaskedLabels(timed, i) ==
    IF i > Len(timed) THEN <<>>
    ELSE (IF NeedsFix(timed[i].TimeTillShipping) THEN <<i>> ELSE <<>>)
         \o MaskedLabels(timed, i + 1)

RECURSIVE ApplyRows(_, _, _)
\* df.loc[fix_mask].apply(self._best_time_fix, axis=1): one result per
\* selected row, in row order.
ApplyRows(timed, labels, k) ==
    IF k > Len(labels) THEN <<>>
    ELSE <<_best_time_fix(timed[labels[k]])>> \o ApplyRows(timed, labels, k + 1)

RECURSIVE PrintedUpTo(_, _)
\* What apply has printed when it stops: the lines of the selected rows in
\* row order, up to the first row whose call raises.
PrintedUpTo(results, k) ==
    IF k > Len(results) \/ results[k].raised THEN <<>>
    ELSE results[k].printed \o PrintedUpTo(results, k + 1)

\* df.loc[fix_mask] = <the applied rows>, written by position.
WriteBackByPosition(timed, labels, results) ==
    [i \in 1..Len(timed) |->
        IF i <= Len(results) THEN results[i].row ELSE timed[i]]

\* df.loc[fix_mask] = <the applied rows>: each applied row goes to the row
\* of its own index label, the other rows stay as they are.
WriteBack(timed, labels, results) ==
    [i \in 1..Len(timed) |->
        IF \E k \in 1..Len(labels) : labels[k] = i
        THEN results[CHOOSE k \in 1..Len(labels) : labels[k] = i].row
        ELSE timed[i]]

(***************************************************************************)
(* Data frames of the date reconciliation.                                 *)
(***************************************************************************)
DaysInMonth(y, m) ==
    IF m = 2
    THEN (IF y % 4 = 0 /\ (y % 100 # 0 \/ y % 400 = 0) THEN 29 ELSE 28)
    ELSE IF m \in {4, 6, 9, 11} THEN 30 ELSE 31

\* Dates that between them make every candidate win, tie, stay above the
\* threshold, cross a year and lie more than BestPickInit days apart.
SampleDates ==
    {Timestamp(BaseYear, 1, 2), Timestamp(BaseYear, 1, 17),
     Timestamp(BaseYear, 2, 2), Timestamp(BaseYear + 1, 1, 1),
     Timestamp(FarYear, 1, 2)}

\* Every date of the calendar window.
WindowDates ==
    {Timestamp(t[1], t[2], t[3]) :
        t \in {u \in (BaseYear..(BaseYear + YearSpan))
                      \X (1..MaxMonth) \X (1..MaxDay) :
                  u[3] <= DaysInMonth(u[1], u[2])}}

DateRow(o, s) == [OrderDate |-> o, ShipDate |-> s, TimeTillShipping |-> Absent]

SampleRows == {DateRow(o, s) : o \in SampleDates \cup {NaT},
                               s \in SampleDates \cup {NaT}}

WindowRows == {DateRow(o, s) : o \in WindowDates \cup {NaT},
                               s \in WindowDates \cup {NaT}}

\* Frames of MaxRows sampled rows, and frames of one row of the window.
DateFrames == [1..MaxRows -> SampleRows] \cup [1..1 -> WindowRows]

NoArgs == [kind |-> "none"]
NoReturn == [kind |-> "none"]
TheFrame == [kind |-> "df"]        \* the call returned the object it was given

InitDates ==
    /\ df \in DateFrames
    /\ orig = df
    /\ prev = df
    /\ calls = 0
    /\ args = NoArgs
    /\ pc = "start"
    /\ ret = NoReturn
    /\ out = <<>>

(***************************************************************************)
(* fix_order_ship_dates(df): the time column is assigned in place first;   *)
(* the selected rows are written back only when apply returns.  The value  *)
(* is the frame the caller is left with, how the call ended, what it       *)
(* returned and what it printed.                                           *)
(***************************************************************************)
fix_order_ship_dates(frame) ==
    LET timed   == TimedRows(frame, 1)
        labels  == MaskedLabels(timed, 1)
        results == ApplyRows(timed, labels, 1)
        raises  == \E k \in 1..Len(results) : results[k].raised
    IN  [df  |-> IF raises THEN timed ELSE WriteBack(timed, labels, results),
         pc  |-> IF raises THEN "raised" ELSE "returned",
         ret |-> IF raises THEN NoReturn ELSE TheFrame,
         out |-> PrintedUpTo(results, 1)]

FixOrderShipDates ==
    /\ pc # "raised"
    /\ calls < MaxCalls
    /\ \E r \in {fix_order_ship_dates(df)} :
          /\ df' = r.df
          /\ pc' = r.pc
          /\ ret' = r.ret
          /\ out' = r.out
    /\ prev' = df
    /\ calls' = calls + 1
    /\ UNCHANGED <<orig, args>>

Next == FixOrderShipDates

Spec == InitDates /\ [][Next]_vars

(***************************************************************************)
(* check_order_consistency(df, key_col, check_cols).  Cells are strings;   *)
(* NA stands for a missing cell (NaN, None, pd.NA).                        *)
(***************************************************************************)
NA == "<NA>"

RECURSIVE SelectIndex(_, _)
\* The positions i.. at which a boolean mask is true, ascending.
SelectIndex(mask, i) ==
    IF i > Len(mask) THEN <<>>
    ELSE (IF mask[i] THEN <<i>> ELSE <<>>) \o SelectIndex(mask, i + 1)

\* The sorted non-missing key values the model draws keys from.
KeyOrder == <<"A", "B">>

\* The index of df.groupby(key_col, dropna=False): the key values present,
\* sorted, the missing key last.
GroupIndex(frame, key_col) ==
    LET present == {frame[i][key_col] : i \in 1..Len(frame)}
        KeyPresent(k) == k \in present
    IN  SelectSeq(KeyOrder, KeyPresent)
        \o (IF NA \in present THEN <<NA>> ELSE <<>>)

\* The group of a key: a missing key groups with the other missing keys.
GroupRows(frame, key_col, k) ==
    {i \in 1..Len(frame) : frame[i][key_col] = k}

\* nunique counting the missing cells as a value.
NUniqueWithNA(frame, key_col, k, col) ==
    Cardinality({frame[i][col] : i \in GroupRows(frame, key_col, k)})

\* nunique(dropna=True) of one column within one group.
NUnique(frame, key_col, k, col) ==
    Cardinality({frame[i][col] : i \in GroupRows(frame, key_col, k)} \ {NA})

\* counts.columns[counts.loc[order_id] > 1].tolist()
BadCols(frame, key_col, check_cols, k) ==
    LET Bad(col) == NUnique(frame, key_col, k, col) > 1
    IN  SelectSeq(check_cols, Bad)

\* The mask with all() read as any(): every column must disagree.
InconsistentAllCols(frame, key_col, check_cols, k) ==
    \A c \in 1..Len(check_cols) : NUnique(frame, key_col, k, check_cols[c]) > 1

\* ~counts.le(1).all(axis=1) for one group.
Inconsistent(frame, key_col, check_cols, k) ==
    ~(\A c \in 1..Len(check_cols) : NUnique(frame, key_col, k, check_cols[c]) <= 1)

\* df[df[key_col] == order_id]: a missing order_id equals no cell.
DisplayRows(frame, key_col, k) ==
    LET mask == [i \in 1..Len(frame) |-> k # NA /\ frame[i][key_col] = k]
        idx  == SelectIndex(mask, 1)
    IN  [j \in 1..Len(idx) |-> frame[idx[j]]]

RECURSIVE OrderReport(_, _, _, _, _)
\* The three prints of the loop body for the orders j.. of the list.
OrderReport(frame, key_col, check_cols, orders, j) ==
    IF j > Len(orders) THEN <<>>
    ELSE << [kind |-> "order", key |-> orders[j],
             bad_cols |-> BadCols(frame, key_col, check_cols, orders[j])],
            [kind |-> "rows",
             rows |-> DisplayRows(frame, key_col, orders[j])],
            [kind |-> "rule"] >>
         \o OrderReport(frame, key_col, check_cols, orders, j + 1)

AllConsistent == [kind |-> "True"]
AllConsistentNotice == [kind |-> "all_consistent"]

check_order_consistency(frame, key_col, check_cols) ==
    LET IsInconsistent(k) == Inconsistent(frame, key_col, check_cols, k)
        inconsistent_orders == SelectSeq(GroupIndex(frame, key_col), IsInconsistent)
    IN  IF inconsistent_orders = <<>>
        THEN [ret |-> AllConsistent, out |-> <<AllConsistentNotice>>]
        ELSE [ret |-> [kind |-> "set",
                       keys |-> {inconsistent_orders[j] :
                                    j \in 1..Len(inconsistent_orders)}],
              out |-> <<[kind |-> "found", n |-> Len(inconsistent_orders)]>>
                      \o OrderReport(frame, key_col, check_cols,
                                     inconsistent_orders, 1)]

KeyValues == {KeyOrder[j] : j \in 1..Len(KeyOrder)} \cup {NA}
CustomerValues == {"x", "y"}
CheckValues == {"x", "y", NA}

CheckRows ==
    [OrderID : KeyValues, Customer : CustomerValues, City : CheckValues]

CheckFrames == [1..MaxCheckRows -> CheckRows]

CheckColsChoices == {<<"Customer", "City">>, <<"City", "Customer">>, <<"City">>}

InitCheck ==
    /\ df \in CheckFrames
    /\ orig = df
    /\ prev = df
    /\ calls = 0
    /\ args = NoArgs
    /\ pc = "start"
    /\ ret = NoReturn
    /\ out = <<>>

CheckOrderConsistency ==
    /\ calls = 0
    /\ \E check_cols \in CheckColsChoices :
          /\ args' = [key_col |-> "OrderID", check_cols |-> check_cols]
          /\ \E r \in {check_order_consistency(df, "OrderID", check_cols)} :
                /\ ret' = r.ret
                /\ out' = r.out
    /\ pc' = "returned"
    /\ prev' = df
    /\ calls' = calls + 1
    /\ UNCHANGED <<df, orig>>

SpecCheck == InitCheck /\ [][CheckOrderConsistency]_vars

(***************************************************************************)
(* fill_blank_relative(df, blank_col_name, relative_col_names).            *)
(***************************************************************************)
\* The mask with all() read as any(): one present relative is enough.
RelPresentAny(row, relative_col_names) ==
    \E c \in 1..Len(relative_col_names) : row[relative_col_names[c]] # NA

\* df[relative_col_names].notna().all(axis=1) for one row.
RelPresent(row, relative_col_names) ==
    \A c \in 1..Len(relative_col_names) : row[relative_col_names[c]] # NA

\* The merge key made of the first relative column alone.
RelTupleFirstOnly(row, relative_col_names) == <<row[relative_col_names[1]]>>

\* The merge key of a row: its values in the relative columns.
RelTuple(row, relative_col_names) ==
    [c \in 1..Len(relative_col_names) |-> row[relative_col_names[c]]]

RECURSIVE DropDuplicatesKeepLast(_, _, _, _)
\* drop_duplicates keeping the last row of each key instead of the first.
DropDuplicatesKeepLast(src, relative_col_names, j, seen) ==
    IF j > Len(src) THEN <<>>
    ELSE (IF \E h \in (j + 1)..Len(src) :
                RelTuple(src[h], relative_col_names)
                    = RelTuple(src[j], relative_col_names)
          THEN <<>> ELSE <<src[j]>>)
         \o DropDuplicatesKeepLast(src, relative_col_names, j + 1, seen)

RECURSIVE DropDuplicates(_, _, _, _)
\* drop_duplicates(subset=relative_col_names): of the source rows src[j..]
\* keep those whose key is not among the keys seen, the first of each key.
DropDuplicates(src, relative_col_names, j, seen) ==
    IF j > Len(src) THEN <<>>
    ELSE LET key == RelTuple(src[j], relative_col_names)
         IN  IF key \in seen
             THEN DropDuplicates(src, relative_col_names, j + 1, seen)
             ELSE <<src[j]>>
                  \o DropDuplicates(src, relative_col_names, j + 1,
                                    seen \cup {key})

\* One row of the left merge followed by fillna: the target of the lookup
\* row with the same key, missing when there is none.
FilledValue(row, lookup, blank_col_name, relative_col_names) ==
    LET hits == {j \in 1..Len(lookup) :
                    RelTuple(lookup[j], relative_col_names)
                        = RelTuple(row, relative_col_names)}
    IN  IF hits = {} THEN NA
        ELSE lookup[CHOOSE j \in hits : \A h \in hits : j <= h][blank_col_name]

fill_blank_relative(frame, blank_col_name, relative_col_names) ==
    LET ToFill(row) == row[blank_col_name] = NA
                       /\ RelPresent(row, relative_col_names)
        Source(row) == row[blank_col_name] # NA
                       /\ RelPresent(row, relative_col_names)
        to_fill_mask == [i \in 1..Len(frame) |-> ToFill(frame[i])]
        to_fill == SelectIndex(to_fill_mask, 1)
        lookup  == DropDuplicates(SelectSeq(frame, Source),
                                  relative_col_names, 1, {})
        filled_values ==
            [j \in 1..Len(to_fill) |->
                FilledValue(frame[to_fill[j]], lookup, blank_col_name,
                            relative_col_names)]
    IN  IF to_fill = <<>> \/ lookup = <<>>
        THEN frame
        ELSE [i \in 1..Len(frame) |->
                IF \E j \in 1..Len(to_fill) : to_fill[j] = i
                THEN [frame[i] EXCEPT ![blank_col_name] =
                        filled_values[CHOOSE j \in 1..Len(to_fill) :
                                          to_fill[j] = i]]
                ELSE frame[i]]

PostcodeValues == {"p", "q", NA}
CountryValues == {"u", "v", NA}
CityValues == {"x", "y", NA}

FillRows == [Postcode : PostcodeValues, Country : CountryValues, City : CityValues]

\* Rows that all share one relative tuple, for frames one row longer.
SameTupleRows == [Postcode : {"p"}, Country : {"u"}, City : CityValues]

FillFrames ==
    [1..MaxFillRows -> FillRows] \cup [1..(MaxFillRows + 1) -> SameTupleRows]

RelativeChoices == {<<"Postcode", "Country">>, <<"Postcode">>}

InitFill ==
    /\ df \in FillFrames
    /\ orig = df
    /\ prev = df
    /\ calls = 0
    /\ args = NoArgs
    /\ pc = "start"
    /\ ret = NoReturn
    /\ out = <<>>

FillBlankRelative ==
    /\ calls = 0
    /\ \E relative_col_names \in RelativeChoices :
          /\ args' = [blank_col_name |-> "City",
                      relative_col_names |-> relative_col_names]
          /\ df' = fill_blank_relative(df, "City", relative_col_names)
    /\ pc' = "returned"
    /\ ret' = TheFrame
    /\ out' = <<>>
    /\ prev' = df
    /\ calls' = calls + 1
    /\ UNCHANGED orig

SpecFill == InitFill /\ [][FillBlankRelative]_vars

(***************************************************************************)
(* Vocabulary of the claims about the date reconciliation.  These are      *)
(* written from the statements checked, independently of the operators     *)
(* above.                                                                  *)
(***************************************************************************)
HasDates(row) == row.OrderDate # NaT /\ row.ShipDate # NaT

Duration(row) == DayNumber(row.ShipDate) - DayNumber(row.OrderDate)

\* The row is one the call selects for fixing.
Selected(row) ==
    HasDates(row) /\ (Duration(row) < 0 \/ Duration(row) > day_threshold)

Flip(d) == Timestamp(d.year, d.day, d.month)

Flippable(d) == d.day <= 12

\* The five candidates of a row in the order NONE, SWAP, ORDER, SHIP, BOTH,
\* each with the dates it stands for and their duration in days.
CandidateList(row) ==
    LET o  == row.OrderDate
        s  == row.ShipDate
        fo == Flip(o)
        fs == Flip(s)
        Cand(name, ok, od, sd) ==
            [name |-> name, ok |-> ok, OrderDate |-> od, ShipDate |-> sd,
             days |-> DayNumber(sd) - DayNumber(od)]
    IN  << Cand("NONE", TRUE, o, s),
           Cand("SWAP", TRUE, s, o),
           Cand("ORDER", Flippable(o), fo, s),
           Cand("SHIP", Flippable(s), o, fs),
           Cand("BOTH", Flippable(o) /\ Flippable(s), fo, fs) >>

\* The positions of the candidates that are valid and not negative.
Eligible(row) ==
    LET cl == CandidateList(row)
    IN  {k \in 1..Len(cl) : cl[k].ok /\ cl[k].days >= 0}

\* The positions of the eligible candidates of smallest duration.
Smallest(row) ==
    LET cl == CandidateList(row)
        el == {k \in 1..Len(cl) : cl[k].ok /\ cl[k].days >= 0}
    IN  {k \in el : \A j \in el : cl[k].days <= cl[j].days}

SameDates(a, b) == a.OrderDate = b.OrderDate /\ a.ShipDate = b.ShipDate

Rows == 1..Len(df)

\* C1 (as stated): after a call, every row the call selected has as its
\* derived duration the smallest non-negative duration among its valid
\* candidates; a row without a non-negative candidate keeps its dates.
C1_Minimality ==
    calls >= 1 =>
        \A i \in Rows :
            Selected(prev[i]) =>
                IF Eligible(prev[i]) = {}
                THEN SameDates(df[i], prev[i])
                ELSE \E k \in Smallest(prev[i]) :
                        df[i].TimeTillShipping =
                            Timedelta(CandidateList(prev[i])[k].days)

\* C2 (as stated): a second call changes no row.
C2_Idempotent ==
    calls >= 2 => \A i \in Rows : df[i] = prev[i]

\* C2 (amended): a second call leaves unchanged every row whose duration
\* after the first call is missing or at most the threshold; a row still
\* above the threshold is selected again and its duration never grows.
C2_IdempotentWithinThreshold ==
    calls >= 2 =>
        \A i \in Rows :
            IF ~HasDates(prev[i]) \/ prev[i].TimeTillShipping.days <= day_threshold
            THEN df[i] = prev[i]
            ELSE /\ df[i].TimeTillShipping.days >= 0
                 /\ df[i].TimeTillShipping.days <= prev[i].TimeTillShipping.days

\* A first call fixed a row into the threshold and a second call kept it,
\* while another (or the same frame's) row above the threshold was reduced.
C2_Witness ==
    /\ calls = 2
    /\ \E i \in Rows :
          /\ ~SameDates(orig[i], prev[i])
          /\ prev[i].TimeTillShipping.days <= day_threshold
          /\ df[i] = prev[i]
    /\ \E i \in Rows :
          /\ HasDates(prev[i])
          /\ prev[i].TimeTillShipping.days > day_threshold
          /\ df[i].TimeTillShipping.days < prev[i].TimeTillShipping.days

\* C3: when the call returns and two or more valid candidates of a selected
\* row share the smallest non-negative duration, the row holds the dates of
\* the first of them in the order NONE, SWAP, ORDER, SHIP, BOTH.
C3_TieBreak ==
    (calls >= 1 /\ pc = "returned") =>
        \A i \in Rows :
            (Selected(prev[i]) /\ Cardinality(Smallest(prev[i])) >= 2) =>
                LET tied  == Smallest(prev[i])
                    first == CHOOSE k \in tied : \A j \in tied : k <= j
                IN  SameDates(df[i], CandidateList(prev[i])[first])

\* A tie between two candidates of different dates was settled.
C3_Witness ==
    /\ calls >= 1 /\ pc = "returned"
    /\ \E i \in Rows :
          /\ Selected(prev[i])
          /\ \E j, k \in Smallest(prev[i]) :
                /\ j < k
                /\ ~SameDates(CandidateList(prev[i])[j], CandidateList(prev[i])[k])
                /\ SameDates(df[i], CandidateList(prev[i])[j])
                /\ ~SameDates(df[i], prev[i])

\* C7: after the call returns, the time column of every row is its ship
\* date minus its order date (missing when a date is missing).
C7_TimeIsShipMinusOrder ==
    (calls >= 1 /\ pc = "returned") =>
        \A i \in Rows :
            df[i].TimeTillShipping =
                IF HasDates(df[i]) THEN Timedelta(Duration(df[i])) ELSE NaT

\* A frame with a row whose dates the call changed and a row it left alone.
C7_Witness ==
    /\ calls >= 1 /\ pc = "returned"
    /\ \E i \in Rows : HasDates(df[i]) /\ ~SameDates(df[i], prev[i])
    /\ \E i \in Rows : SameDates(df[i], prev[i])

\* C8 (as stated): after a call the order date has the year the order date
\* had before, and the ship date the year the ship date had before.
C8_YearsKeptPerColumn ==
    calls >= 1 =>
        \A i \in Rows :
            HasDates(prev[i]) =>
                /\ df[i].OrderDate.year = prev[i].OrderDate.year
                /\ df[i].ShipDate.year = prev[i].ShipDate.year

\* C8 (amended): every date keeps its year; the years stay with their
\* columns except when the two dates were exchanged whole (SWAP), and then
\* each column holds the other column's former date, year included.
C8_YearsKeptPerDate ==
    calls >= 1 =>
        \A i \in Rows :
            HasDates(prev[i]) =>
                \/ /\ df[i].OrderDate.year = prev[i].OrderDate.year
                   /\ df[i].ShipDate.year = prev[i].ShipDate.year
                \/ /\ df[i].OrderDate = prev[i].ShipDate
                   /\ df[i].ShipDate = prev[i].OrderDate

\* A day/month exchange was committed on a row whose dates lie in
\* different years.
C8_Witness ==
    /\ calls >= 1 /\ pc = "returned"
    /\ \E i \in Rows :
          /\ HasDates(prev[i])
          /\ prev[i].OrderDate.year # prev[i].ShipDate.year
          /\ ~SameDates(df[i], prev[i])
          /\ ~(df[i].OrderDate = prev[i].ShipDate /\ df[i].ShipDate = prev[i].OrderDate)

\* C9: a call leaves the dates of every row it does not select as they
\* were: rows with a date missing and rows whose duration is within
\* 0 .. day_threshold.
C9_UnselectedUntouched ==
    calls >= 1 =>
        \A i \in Rows :
            (~HasDates(prev[i])
             \/ (Duration(prev[i]) >= 0 /\ Duration(prev[i]) <= day_threshold)) =>
                SameDates(df[i], prev[i])

\* A call changed one row of a frame and left alone a row at exactly the
\* threshold and a row with a date missing.
C9_Witness ==
    /\ calls >= 1 /\ pc = "returned"
    /\ \E i \in Rows : ~SameDates(df[i], prev[i])
    /\ \E i \in Rows :
          /\ HasDates(prev[i]) /\ Duration(prev[i]) = day_threshold
          /\ SameDates(df[i], prev[i])

(***************************************************************************)
(* Vocabulary of the claims about the consistency check.                   *)
(***************************************************************************)
\* Two rows of the group of key k hold different non-missing values in col.
Disagrees(frame, k, col) ==
    \E i, j \in 1..Len(frame) :
        /\ frame[i].OrderID = k /\ frame[j].OrderID = k
        /\ frame[i][col] # NA /\ frame[j][col] # NA
        /\ frame[i][col] # frame[j][col]

\* The group of key k disagrees in at least one of the checked columns.
GroupDisagrees(frame, k, cols) ==
    \E c \in 1..Len(cols) : Disagrees(frame, k, cols[c])

KeysOf(frame) == {frame[i].OrderID : i \in 1..Len(frame)}

Reported(k) == ret.kind = "set" /\ k \in ret.keys

\* C4: a key value, the missing key included, is in the returned set iff
\* its group has a checked column with two or more distinct non-missing
\* values; nothing else is in the set.
C4_ConsistencyCompleteness ==
    pc = "returned" =>
        /\ \A k \in KeysOf(df) :
              Reported(k) <=> GroupDisagrees(df, k, args.check_cols)
        /\ ret.kind = "set" => ret.keys \subseteq KeysOf(df)

\* The group of the missing key is reported for one checked column while
\* its other checked column, a value beside a missing cell, does not
\* disagree; a second group of a single row is not reported.
C4_Witness ==
    /\ pc = "returned"
    /\ Reported(NA)
    /\ Len(args.check_cols) = 2
    /\ \E c \in 1..2 :
          /\ ~Disagrees(df, NA, args.check_cols[c])
          /\ \E i, j \in 1..Len(df) :
                /\ df[i].OrderID = NA /\ df[j].OrderID = NA
                /\ df[i][args.check_cols[c]] = NA
                /\ df[j][args.check_cols[c]] # NA
    /\ \E k \in KeysOf(df) \ {NA} : ~Reported(k)

RelativesPresent(row) ==
    \A c \in 1..Len(args.relative_col_names) : row[args.relative_col_names[c]] # NA

SameRelatives(a, b) ==
    \A c \in 1..Len(args.relative_col_names) :
        a[args.relative_col_names[c]] = b[args.relative_col_names[c]]

\* Target missing and every relative column present.
Fillable(row) == row.City = NA /\ RelativesPresent(row)

\* Target present and every relative column present.
IsSource(row) == row.City # NA /\ RelativesPresent(row)

\* The source rows of the frame before the call that share the relatives
\* of row.
SourcesFor(row) ==
    {j \in 1..Len(prev) : IsSource(prev[j]) /\ SameRelatives(prev[j], row)}

\* C5: the call changes nothing but the target cell of fillable rows; with
\* no fillable row the frame handed in is returned as it was.
C5_FillFrame ==
    pc = "returned" =>
        /\ Len(df) = Len(prev)
        /\ \A i \in 1..Len(prev) :
              /\ ~Fillable(prev[i]) => df[i] = prev[i]
              /\ df[i].Postcode = prev[i].Postcode
              /\ df[i].Country = prev[i].Country
        /\ (\A i \in 1..Len(prev) : ~Fillable(prev[i])) =>
              (df = prev /\ ret = TheFrame)

\* A fillable row was filled next to a row with a missing target and a
\* missing relative that shares its present relative with a source row.
C5_Witness ==
    /\ pc = "returned"
    /\ \E i \in 1..Len(prev) : Fillable(prev[i]) /\ df[i].City # NA
    /\ \E i, j \in 1..Len(prev) :
          /\ prev[i].City = NA /\ ~RelativesPresent(prev[i])
          /\ IsSource(prev[j]) /\ prev[j].Postcode = prev[i].Postcode
          /\ df[i] = prev[i]

\* C6: the call returns, every fillable row with a source row of the same
\* relatives holds the target of such a row, and every fillable row
\* without one still has a missing target.
C6_FillFromOwnTuple ==
    /\ calls >= 1 => pc = "returned"
    /\ pc = "returned" =>
          \A i \in 1..Len(prev) :
              Fillable(prev[i]) =>
                  IF SourcesFor(prev[i]) = {}
                  THEN df[i].City = NA
                  ELSE \E j \in SourcesFor(prev[i]) : df[i].City = prev[j].City

\* One fillable row was filled from the source of its own relatives, not
\* from a source that shares only its first relative, and another fillable
\* row found no source and stayed missing.
C6_Witness ==
    /\ pc = "returned"
    /\ Len(args.relative_col_names) = 2
    /\ \E i, j, h \in 1..Len(prev) :
          /\ Fillable(prev[i])
          /\ j \in SourcesFor(prev[i])
          /\ IsSource(prev[h]) /\ prev[h].Postcode = prev[i].Postcode
          /\ prev[h].Country # prev[i].Country
          /\ prev[h].City # prev[j].City
          /\ df[i].City = prev[j].City

(***************************************************************************)
(* Vocabulary of the claims about the diagnostic report.                   *)
(***************************************************************************)
\* The checked columns, in the order given, in which the group of key k
\* holds two or more distinct non-missing values.
DisagreeingCols(frame, k, cols) ==
    LET Differs(col) == Disagrees(frame, k, col)
    IN  SelectSeq(cols, Differs)

\* The rows of the frame whose key belongs to the group of k, in dataset
\* order; the rows with a missing key form the group of the missing key.
RowsOfGroup(frame, k) ==
    LET InGroup(row) == row.OrderID = k
    IN  SelectSeq(frame, InGroup)

\* The positions in the report of the entries that name key k.
EntriesOf(k) ==
    {n \in 1..Len(out) : out[n].kind = "order" /\ out[n].key = k}

\* The entry at position n names the disagreeing columns of k and is
\* followed by exactly the rows of the group of k.
EntryDescribes(n, k) ==
    /\ out[n].bad_cols = DisagreeingCols(df, k, args.check_cols)
    /\ n + 1 <= Len(out)
    /\ out[n + 1].kind = "rows"
    /\ out[n + 1].rows = RowsOfGroup(df, k)

\* C11: for every returned key, the missing key included, the report has
\* one entry that names exactly the checked columns with more than one
\* distinct non-missing value in the group, in check_cols order, followed
\* by every row of the group and no other row.
C11_ReportEntries ==
    (pc = "returned" /\ ret.kind = "set") =>
        \A k \in ret.keys :
            /\ Cardinality(EntriesOf(k)) = 1
            /\ \A n \in EntriesOf(k) : EntryDescribes(n, k)

(***************************************************************************)
(* Vocabulary of the claim about conflicting lookup sources.               *)
(***************************************************************************)
\* Two source rows of the relatives of row hold different targets.
ConflictingSources(row) ==
    \E j, h \in SourcesFor(row) : prev[j].City # prev[h].City

\* The earliest source row, in dataset order, of the relatives of row.
EarliestSource(row) ==
    CHOOSE j \in SourcesFor(row) : \A h \in SourcesFor(row) : j <= h

\* C12: when source rows of one relative tuple hold different targets the
\* call still returns and prints nothing, every fillable row of that tuple
\* holds the target of the earliest such source row in dataset order, and
\* so all fillable rows of the tuple end with the same target.
C12_EarliestSourceWins ==
    /\ calls >= 1 => (pc = "returned" /\ ret = TheFrame /\ out = <<>>)
    /\ pc = "returned" =>
          \A i \in 1..Len(prev) :
              (Fillable(prev[i]) /\ ConflictingSources(prev[i])) =>
                  /\ df[i].City = prev[EarliestSource(prev[i])].City
                  /\ \A i2 \in 1..Len(prev) :
                        (Fillable(prev[i2]) /\ SameRelatives(prev[i2], prev[i]))
                            => df[i2].City = df[i].City

\* Two fillable rows of one tuple, one before and one after two source
\* rows of that tuple with different targets, both hold the target of the
\* earlier source row.
C12_Witness ==
    /\ pc = "returned"
    /\ \E i, i2, j, h \in 1..Len(prev) :
          /\ i < j /\ j < h /\ h < i2
          /\ Fillable(prev[i]) /\ Fillable(prev[i2])
          /\ SameRelatives(prev[i], prev[i2])
          /\ j \in SourcesFor(prev[i]) /\ h \in SourcesFor(prev[i])
          /\ prev[j].City # prev[h].City
          /\ df[i].City = prev[j].City /\ df[i2].City = prev[j].City

====
